---- MODULE Spec2Model ----
(***************************************************************************)
(* Model of the request admission layer (the rate limiter) and of the      *)
(* response cache of the product catalog, with the product route handlers  *)
(* that sit behind them.                                                   *)
(*                                                                         *)
(* Time is in milliseconds, as Date.now().  A Map object is a function     *)
(* whose DOMAIN is the set of keys present.  The variable `last` holds     *)
(* the step taken last, with its arguments and its result; the variables   *)
(* called history record what the claims speak of and the code does not    *)
(* keep.                                                                   *)
(***************************************************************************)
EXTENDS Integers, Sequences, FiniteSets, TLC

VARIABLES
    now,             \* Date.now()
    rateLimitStore,  \* the module-level Map of the rate limiter
    rlOwn,           \* history: the table each limiter would have had alone
    rlLastOnKey,     \* history: the latest rateLimit call made for each key
    rlWindow,        \* history: the calls made since a key's entry was created
    cache,           \* the private Map of each MemoryCache instance
    products,        \* the product store: the list in data/products.json
    nextId,          \* the number of ids generateId has handed out, plus one
    uploads,         \* the files of the directory public/uploads
    nextUpload,      \* the number of files ever written there, plus one
    calls,           \* the calls of memoized functions that are in flight
    freshSet,        \* history: the store contents since the last invalidation
    used,            \* how many of the bounded calls were made
    last             \* the step taken last, its arguments and its result

rlVars == <<rateLimitStore, rlOwn, rlLastOnKey, rlWindow>>
storeVars == <<products, nextId>>
imageVars == <<uploads, nextUpload>>
vars == <<now, rlVars, cache, storeVars, imageVars, calls, freshSet, used,
          last>>

----------------------------------------------------------------------------
(* Bounds of the model *)

MaxTime == 61000          \* the clock stops here
StepMs == 500             \* a small step of the clock
StepHorizon == 500        \* small steps are taken below this time only
MaxCalls == 4             \* rateLimit calls in one behaviour
MaxSets == 1              \* MemoryCache.set calls in one behaviour
MaxProducts == 2          \* ids generateId hands out in one behaviour
MaxHandlerCalls == 1      \* calls of the product route handlers in one behaviour
MaxSeeds == 2             \* seed requests in one behaviour
StoredAtStart == 1        \* products in the store when the process starts, at most
ApiMaxRequests == 3       \* quota of apiRateLimit, scaled down from 100
StrictMaxRequests == 2    \* quota of strictApiRateLimit, scaled down from 10
BotMaxRequests == 2       \* quota of botProtectionRateLimit, scaled down from 50
MAX_IMAGES == 2           \* the cap on stored images, scaled down from 30
MaxUploads == 4           \* files written to public/uploads in one behaviour

(* Program constants *)

ApiWindowMs == 900000     \* 15 * 60 * 1000
StrictWindowMs == 60000   \* 60 * 1000
BotWindowMs == 60000      \* 60 * 1000
MsPerSecond == 1000       \* the divisor of resetTimeSeconds
ProductCacheTTL == 300000 \* new MemoryCache(300000)
ApiCacheTTL == 60000      \* new MemoryCache(60000)
MAX_FILE_SIZE == 1048576  \* 1024 * 1024

----------------------------------------------------------------------------
(* Map objects and JavaScript values *)

EmptyMap == [k \in {} |-> k]

MapSet(m, k, v) == [x \in (DOMAIN m) \cup {k} |-> IF x = k THEN v ELSE m[x]]

MapDelete(m, k) == [x \in (DOMAIN m) \ {k} |-> m[x]]

\* Math.ceil(a / b) for b > 0
Ceil(a, b) == -((-a) \div b)

\* null, and any other value: a value is kept in a 1-tuple so that null
\* differs from every value, the empty list included
Null == <<>>
Some(v) == <<v>>

\* an optional argument that was not passed
NotPassed == <<>>

\* the bounded calls made so far
Use(what) == used' = [used EXCEPT ![what] = @ + 1]

----------------------------------------------------------------------------
(* Rate limiter *)

IPs == {"ip1", "ip2"}
UserAgents == {"ua1"}

\* what the key generators read from a request
Requests == [ip : IPs, ua : UserAgents]

Limiters == {"apiRateLimit", "strictApiRateLimit", "botProtectionRateLimit"}

\* the three pre-configured limiters
Config(l) ==
    CASE l = "apiRateLimit" ->
           [maxRequests |-> ApiMaxRequests, windowMs |-> ApiWindowMs]
      [] l = "strictApiRateLimit" ->
           [maxRequests |-> StrictMaxRequests, windowMs |-> StrictWindowMs]
      [] l = "botProtectionRateLimit" ->
           [maxRequests |-> BotMaxRequests, windowMs |-> BotWindowMs]

\* getClientIP, or ip ":" user agent for the bot protection limiter
keyGenerator(l, request) ==
    IF l = "botProtectionRateLimit"
    THEN request.ip \o ":" \o request.ua
    ELSE request.ip

\* !entry || now > entry.resetTime
WindowOver(store, key, t) ==
    key \notin DOMAIN store \/ t > store[key].resetTime

LimitExceededOffByOne(count, maxRequests) == count >= maxRequests

\* entry.count > maxRequests, after entry.count++
LimitExceeded(count, maxRequests) == count > maxRequests

\* Math.ceil((entry.resetTime - now) / 1000)
resetTimeSeconds(entry, t) == Ceil(entry.resetTime - t, MsPerSecond)

RateLimitStoreClearing(store, l, key, t) ==
    IF WindowOver(store, key, t)
    THEN MapSet(EmptyMap, key, [count |-> 1, resetTime |-> t + Config(l).windowMs])
    ELSE MapSet(store, key, [store[key] EXCEPT !.count = @ + 1])

\* a count of the admitted calls only
RateLimitStoreAdmittedOnly(store, l, key, t) ==
    IF WindowOver(store, key, t)
    THEN MapSet(store, key, [count |-> 1, resetTime |-> t + Config(l).windowMs])
    ELSE IF LimitExceeded(store[key].count + 1, Config(l).maxRequests)
    THEN store
    ELSE MapSet(store, key, [store[key] EXCEPT !.count = @ + 1])

\* a sliding window: every call in an open window moves its end
RateLimitStoreSliding(store, l, key, t) ==
    MapSet(store, key,
           IF WindowOver(store, key, t)
           THEN [count |-> 1, resetTime |-> t + Config(l).windowMs]
           ELSE [count |-> store[key].count + 1,
                 resetTime |-> t + Config(l).windowMs])

\* the entry table after rateLimit(request) of limiter l at time t
RateLimitStore(store, l, key, t) ==
    IF WindowOver(store, key, t)
    THEN MapSet(store, key, [count |-> 1, resetTime |-> t + Config(l).windowMs])
    ELSE MapSet(store, key, [store[key] EXCEPT !.count = @ + 1])

\* whether rateLimit(request) of limiter l throws RateLimitError at time t
RateLimitThrows(store, l, key, t) ==
    /\ ~WindowOver(store, key, t)
    /\ LimitExceeded(store[key].count + 1, Config(l).maxRequests)

\* the seconds in the message of the RateLimitError, 0 when admitted
RateLimitSeconds(store, l, key, t) ==
    IF RateLimitThrows(store, l, key, t)
    THEN resetTimeSeconds(store[key], t)
    ELSE 0

Outcome(store, l, key, t) ==
    IF RateLimitThrows(store, l, key, t) THEN "RateLimited" ELSE "admitted"

NoEntry == [present |-> FALSE, count |-> 0, resetTime |-> 0]

EntryOf(store, key) ==
    IF key \in DOMAIN store
    THEN [present |-> TRUE, count |-> store[key].count,
          resetTime |-> store[key].resetTime]
    ELSE NoEntry

NoCall == [limiter |-> "none", time |-> 0, outcome |-> "none", secs |-> 0]

NoWindow == [start |-> 0, calls |-> 0, by |-> {}, first |-> "none"]

\* rateLimit(request) of limiter l: what the call does to the table, and
\* as history what it was given and what came of it
RateLimitEffect(l, request) ==
    LET key == keyGenerator(l, request)
        fresh == WindowOver(rateLimitStore, key, now)
        out == Outcome(rateLimitStore, l, key, now)
        secs == RateLimitSeconds(rateLimitStore, l, key, now)
        prevWin == IF key \in DOMAIN rlWindow THEN rlWindow[key] ELSE NoWindow
    IN  /\ used.rateLimit < MaxCalls
        /\ Use("rateLimit")
        /\ rateLimitStore' = RateLimitStore(rateLimitStore, l, key, now)
        /\ rlOwn' = [rlOwn EXCEPT ![l] = RateLimitStore(rlOwn[l], l, key, now)]
        /\ rlLastOnKey' = MapSet(rlLastOnKey, key,
                                 [limiter |-> l, time |-> now,
                                  outcome |-> out, secs |-> secs])
        /\ rlWindow' = MapSet(rlWindow, key,
                              IF fresh
                              THEN [start |-> now, calls |-> 1, by |-> {l},
                                    first |-> l]
                              ELSE [start |-> prevWin.start,
                                    calls |-> prevWin.calls + 1,
                                    by |-> prevWin.by \cup {l},
                                    first |-> prevWin.first])
        /\ UNCHANGED <<now, imageVars, cache, storeVars, calls, freshSet>>

RateLimitRecord(l, request) ==
    LET key == keyGenerator(l, request) IN
    [op |-> "rateLimit", limiter |-> l, key |-> key, time |-> now,
     outcome |-> Outcome(rateLimitStore, l, key, now),
     secs |-> RateLimitSeconds(rateLimitStore, l, key, now),
     pre |-> EntryOf(rateLimitStore, key),
     post |-> EntryOf(RateLimitStore(rateLimitStore, l, key, now), key),
     prev |-> IF key \in DOMAIN rlLastOnKey THEN rlLastOnKey[key] ELSE NoCall,
     alone |-> Outcome(rlOwn[l], l, key, now)]

\* rateLimit(request) of limiter l
RateLimit(l, request) ==
    /\ RateLimitEffect(l, request)
    /\ last' = RateLimitRecord(l, request)

\* a header value is a sequence of characters; request.headers.get gives
\* null for a header the request does not carry
Chars(text) == {text[i] : i \in 1..Len(text)}

\* the string of a sequence of characters
RECURSIVE Str(_)
Str(text) == IF text = <<>> THEN "" ELSE text[1] \o Str(Tail(text))

\* text.split(",")[0]
FirstItem(text) ==
    IF "," \in Chars(text)
    THEN SubSeq(text, 1, (CHOOSE i \in 1..Len(text) :
                             /\ text[i] = ","
                             /\ \A j \in 1..(i - 1) : text[j] # ",") - 1)
    ELSE text

TrimNone(text) == text

\* text.trim()
Trim(text) ==
    LET kept == {i \in 1..Len(text) : text[i] # " "} IN
    IF kept = {} THEN <<>>
    ELSE SubSeq(text, CHOOSE i \in kept : \A j \in kept : i <= j,
                      CHOOSE i \in kept : \A j \in kept : i >= j)

\* if (header): neither null nor the empty string
HeaderTruthy(header) == header # Null /\ header[1] # <<>>

\* getClientIP(request), from the three headers it reads
getClientIP(headers) ==
    IF HeaderTruthy(headers.forwarded)
    THEN Str(Trim(FirstItem(headers.forwarded[1])))
    ELSE IF HeaderTruthy(headers.realIP) THEN Str(headers.realIP[1])
    ELSE IF HeaderTruthy(headers.cfConnectingIP)
    THEN Str(headers.cfConnectingIP[1])
    ELSE "unknown"

SweptStoreFlipped(store, t) ==
    [k \in {x \in DOMAIN store : ~(t < store[x].resetTime)} |-> store[k]]

SweptStoreAtReset(store, t) ==
    [k \in {x \in DOMAIN store : ~(t >= store[x].resetTime)} |-> store[k]]

\* the entries the setInterval callback leaves in a table at time t
SweptStore(store, t) ==
    [k \in {x \in DOMAIN store : ~(t > store[x].resetTime)} |-> store[k]]

\* the setInterval callback of the rate limiter
RateLimitSweep ==
    /\ rateLimitStore' = SweptStore(rateLimitStore, now)
    /\ rlOwn' = [l \in Limiters |-> SweptStore(rlOwn[l], now)]
    /\ last' = [op |-> "rateLimitSweep",
                removed |-> (DOMAIN rateLimitStore) \ (DOMAIN rateLimitStore')]
    /\ UNCHANGED <<now, imageVars, rlLastOnKey, rlWindow, cache, storeVars,
                   calls,
                   freshSet, used>>

----------------------------------------------------------------------------
(* MemoryCache *)

CacheNames == {"productCache", "apiCache"}

defaultTTL(c) == IF c = "productCache" THEN ProductCacheTTL ELSE ApiCacheTTL

\* cacheKeys
allProducts == "products:all"
productById(id) == "product:" \o id
productsByCategory(category) == "products:category:" \o category
productsBySearch(query) == "products:search:" \o query
featuredProducts == "products:featured"

\* ttl || this.defaultTTL
TtlOrDefault(ttl, default) ==
    IF ttl # NotPassed /\ ttl[1] # 0 THEN ttl[1] ELSE default

IsExpiredAtTtl(entry, t) == t - entry.timestamp >= entry.ttl

IsExpiredInverted(entry, t) == t - entry.timestamp < entry.ttl

\* Date.now() - entry.timestamp > entry.ttl
IsExpired(entry, t) == t - entry.timestamp > entry.ttl

SetMapKeepingFirst(m, key, data, ttl, default, t) ==
    IF key \in DOMAIN m
    THEN m
    ELSE MapSet(m, key, [data |-> data, timestamp |-> t,
                         ttl |-> TtlOrDefault(ttl, default)])

\* MemoryCache.set: the Map afterwards
SetMap(m, key, data, ttl, default, t) ==
    MapSet(m, key, [data |-> data, timestamp |-> t,
                    ttl |-> TtlOrDefault(ttl, default)])

\* MemoryCache.get: the value returned
GetResult(m, key, t) ==
    IF key \notin DOMAIN m THEN Null
    ELSE IF IsExpired(m[key], t) THEN Null
    ELSE m[key].data

\* MemoryCache.get: the Map afterwards
GetMap(m, key, t) ==
    IF key \in DOMAIN m /\ IsExpired(m[key], t) THEN MapDelete(m, key) ELSE m

IsExpiredInHasAtTtl(entry, t) == t - entry.timestamp >= entry.ttl

\* the test of MemoryCache.has: Date.now() - entry.timestamp > entry.ttl
IsExpiredInHas(entry, t) == t - entry.timestamp > entry.ttl

\* MemoryCache.has: the value returned
HasResult(m, key, t) == key \in DOMAIN m /\ ~IsExpiredInHas(m[key], t)

\* MemoryCache.has: the Map afterwards
HasMap(m, key, t) ==
    IF key \in DOMAIN m /\ IsExpiredInHas(m[key], t)
    THEN MapDelete(m, key) ELSE m

\* MemoryCache.delete: the value returned
DeleteResult(m, key) == key \in DOMAIN m

CleanupMapAtTtl(m, t) ==
    [k \in {x \in DOMAIN m : t - m[x].timestamp < m[x].ttl} |-> m[k]]

\* MemoryCache.cleanup: the Map afterwards
CleanupMap(m, t) == [k \in {x \in DOMAIN m : ~IsExpired(m[x], t)} |-> m[k]]

\* the entry of a key before a call, if any
EntryBefore(m, key) == IF key \in DOMAIN m THEN Some(m[key]) ELSE Null

CacheFrame == UNCHANGED <<now, imageVars, rlVars, storeVars, calls, freshSet>>

CacheSet(c, key, data, ttl) ==
    /\ used.set < MaxSets
    /\ Use("set")
    /\ cache' = [cache EXCEPT
                   ![c] = SetMap(@, key, data, ttl, defaultTTL(c), now)]
    /\ last' = [op |-> "set", cache |-> c, key |-> key, data |-> data,
                ttl |-> ttl, pre |-> EntryBefore(cache[c], key)]
    /\ CacheFrame

CacheGet(c, key) ==
    /\ cache' = [cache EXCEPT ![c] = GetMap(@, key, now)]
    /\ last' = [op |-> "get", cache |-> c, key |-> key,
                result |-> GetResult(cache[c], key, now),
                pre |-> EntryBefore(cache[c], key)]
    /\ CacheFrame /\ UNCHANGED used

CacheHas(c, key) ==
    /\ cache' = [cache EXCEPT ![c] = HasMap(@, key, now)]
    /\ last' = [op |-> "has", cache |-> c, key |-> key,
                result |-> HasResult(cache[c], key, now),
                pre |-> EntryBefore(cache[c], key)]
    /\ CacheFrame /\ UNCHANGED used

CacheDelete(c, key) ==
    /\ cache' = [cache EXCEPT ![c] = MapDelete(@, key)]
    /\ last' = [op |-> "delete", cache |-> c, key |-> key,
                result |-> DeleteResult(cache[c], key)]
    /\ CacheFrame /\ UNCHANGED used

CacheClear(c) ==
    /\ cache' = [cache EXCEPT ![c] = EmptyMap]
    /\ last' = [op |-> "clear", cache |-> c]
    /\ CacheFrame /\ UNCHANGED used

\* the setInterval callback of a MemoryCache instance
CacheCleanup(c) ==
    /\ cache' = [cache EXCEPT ![c] = CleanupMap(@, now)]
    /\ last' = [op |-> "cleanup", cache |-> c,
                removed |-> (DOMAIN cache[c]) \ (DOMAIN cache'[c])]
    /\ CacheFrame /\ UNCHANGED used

\* if (productId)
Truthy(productId) == productId # NotPassed /\ productId # Some("")

keysToDeleteNoId(productId) == {allProducts, featuredProducts}

\* invalidateProductCaches: the keys deleted from apiCache
keysToDelete(productId) ==
    {allProducts, featuredProducts} \cup
    (IF Truthy(productId) THEN {productById(productId[1])} ELSE {})

\* invalidateProductCaches: the caches afterwards
Invalidated(caches, productId) ==
    [caches EXCEPT
       !["productCache"] = EmptyMap,
       !["apiCache"] = [k \in (DOMAIN @) \ keysToDelete(productId) |-> @[k]]]

InvalidateProductCaches(productId) ==
    /\ cache' = Invalidated(cache, productId)
    /\ last' = [op |-> "invalidateProductCaches", productId |-> productId,
                removed |-> [c \in CacheNames |->
                               (DOMAIN cache[c]) \ (DOMAIN cache'[c])]]
    /\ freshSet' = {products}
    /\ UNCHANGED <<now, imageVars, rlVars, storeVars, calls, used>>

----------------------------------------------------------------------------
(* The product store and its route handlers *)

\* the JavaScript values of the fields of a request body and of a product
JsUndefined == [type |-> "undefined", num |-> 0, str |-> ""]
JsNumber(n) == [type |-> "number", num |-> n, str |-> ""]
JsString(x) == [type |-> "string", num |-> 0, str |-> x]
JsBoolean(b) == [type |-> "boolean", num |-> IF b THEN 1 ELSE 0, str |-> ""]
JsEmptyArray == [type |-> "array", num |-> 0, str |-> ""]

\* !value
Falsy(value) ==
    \/ value.type = "undefined"
    \/ value.type = "number" /\ value.num = 0
    \/ value.type = "string" /\ value.str = ""
    \/ value.type = "boolean" /\ value.num = 0

\* body[field]; a body is a function from the fields it carries
Field(body, field) == IF field \in DOMAIN body THEN body[field] ELSE JsUndefined

\* a || b
OrElse(a, b) == IF Falsy(a) THEN b ELSE a

\* generateId: an id never handed out before
IdOf(n) == "p" \o ToString(n)
ProductIds == {IdOf(n) : n \in 1..MaxProducts}

\* products.findIndex(product => product.id === id), 0 when there is none
IndexOf(list, id) ==
    IF \E i \in 1..Len(list) : list[i].id = JsString(id)
    THEN CHOOSE i \in 1..Len(list) :
            /\ list[i].id = JsString(id)
            /\ \A j \in 1..(i - 1) : list[j].id # JsString(id)
    ELSE 0

\* a splice that always takes the first product
SpliceFirst(list, index) == Tail(list)

\* products.splice(index, 1)
Splice(list, index) ==
    [i \in 1..(Len(list) - 1) |-> IF i < index THEN list[i] ELSE list[i + 1]]

\* { ...product, ...productData }
Merge(product, productData) ==
    [f \in (DOMAIN product) \cup (DOMAIN productData) |->
        IF f \in DOMAIN productData THEN productData[f] ELSE product[f]]

requiredFields == {"name", "price", "category", "image"}

missingFields(body) == {f \in requiredFields : Falsy(Field(body, f))}

\* a price check that looks at the type only
PriceInvalidTypeOnly(price) == price.type # "number"

\* typeof body.price !== "number" || body.price <= 0
PriceInvalid(price) == price.type # "number" \/ price.num <= 0

\* typeof body.rating !== "number" || body.rating < 0 || body.rating > 5
RatingInvalid(rating) ==
    rating.type # "number" \/ rating.num < 0 \/ rating.num > 5

\* addProduct: the product built from the body of a POST
NewProduct(body, id) ==
    [name |-> Field(body, "name"),
     price |-> Field(body, "price"),
     originalPrice |-> Field(body, "originalPrice"),
     category |-> Field(body, "category"),
     image |-> Field(body, "image"),
     images |-> OrElse(Field(body, "images"), JsEmptyArray),
     featured |-> OrElse(Field(body, "featured"), JsBoolean(FALSE)),
     tags |-> OrElse(Field(body, "tags"), JsEmptyArray),
     id |-> JsString(id)]

\* a body that POST accepts
ValidBody ==
    [name |-> JsString("Widget"), price |-> JsNumber(10),
     category |-> JsString("tools"), image |-> JsString("/widget.png")]

\* the status of POST /api/products
PostStatus(body) ==
    IF missingFields(body) # {} THEN 400
    ELSE IF PriceInvalid(Field(body, "price")) THEN 400
    ELSE 201

\* the status of PUT and PATCH /api/products/[id]
PutStatus(list, id, body) ==
    IF id = "" THEN 400
    ELSE IF IndexOf(list, id) = 0 THEN 404
    ELSE IF "price" \in DOMAIN body /\ PriceInvalid(body.price) THEN 400
    ELSE IF "rating" \in DOMAIN body /\ RatingInvalid(body.rating) THEN 400
    ELSE 200

\* the status of DELETE /api/products/[id]
DeleteStatus(list, id) ==
    IF id = "" THEN 400
    ELSE IF IndexOf(list, id) = 0 THEN 404
    ELSE 200

\* a handler answers with `status` and `data` and leaves the store as
\* `list`; the handlers touch no cache
Respond(method, status, id, data, list) ==
    /\ used.handler < MaxHandlerCalls
    /\ Use("handler")
    /\ products' = list
    /\ last' = [op |-> method, status |-> status, id |-> id, data |-> data]
    /\ freshSet' = freshSet \cup {list}
    /\ calls' = [c \in DOMAIN calls |->
                    IF calls[c].pc = "idle" THEN calls[c]
                    ELSE [calls[c] EXCEPT !.ok = @ \cup {list}]]
    /\ UNCHANGED <<now, imageVars, rlVars, cache>>

\* POST /api/products
POST(body) ==
    LET status == PostStatus(body) IN
    IF status = 201
    THEN /\ nextId <= MaxProducts
         /\ nextId' = nextId + 1
         /\ Respond("POST", 201, IdOf(nextId),
                    Some(NewProduct(body, IdOf(nextId))),
                    Append(products, NewProduct(body, IdOf(nextId))))
    ELSE /\ UNCHANGED nextId
         /\ Respond("POST", status, "", Null, products)

\* PUT /api/products/[id], and PATCH, which calls it
PutHandler(method, id, body) ==
    LET status == PutStatus(products, id, body)
        index == IndexOf(products, id)
    IN  /\ UNCHANGED nextId
        /\ Respond(method, status, id,
                   IF status = 200
                   THEN Some(Merge(products[index], body))
                   ELSE Null,
                   IF status = 200
                   THEN [products EXCEPT ![index] = Merge(@, body)]
                   ELSE products)

PUT(id, body) == PutHandler("PUT", id, body)

PATCH(id, body) == PutHandler("PATCH", id, body)

\* DELETE /api/products/[id]
DELETE(id) ==
    LET status == DeleteStatus(products, id) IN
    /\ UNCHANGED nextId
    /\ Respond("DELETE", status, id, Null,
               IF status = 200
               THEN Splice(products, IndexOf(products, id))
               ELSE products)

----------------------------------------------------------------------------
(* Uploaded images *)

ALLOWED_TYPES ==
    {"image/jpeg", "image/jpg", "image/png", "image/webp", "image/gif"}

\* the extensions of /\.(jpg|jpeg|png|webp|gif)$/i, in lower case
ImageExtensions == {"jpg", "jpeg", "png", "webp", "gif"}

\* an array with these items
JsArray(items) == [type |-> "array", num |-> 0, str |-> "", items |-> items]

\* text.toLowerCase(), for the texts the uploads use
ToLowerCase(text) ==
    CASE text = "PNG" -> "png"
      [] text = "JPG" -> "jpg"
      [] OTHER -> text

\* file.name.split(".").pop()?.toLowerCase() || "jpg"; a name is the list
\* of its parts between the dots
fileExtension(name) ==
    LET lower == ToLowerCase(name[Len(name)]) IN
    IF lower = "" THEN "jpg" ELSE lower

\* `product_${timestamp}_${randomString}.${fileExtension}`: the n-th name,
\* no two alike
fileName(n, extension) == "product_" \o ToString(n) \o "." \o extension

\* the public URL path of a file
UrlOf(filename) == "/uploads/" \o filename

\* the status of POST /api/upload
UploadStatus(file) ==
    IF file = Null THEN 400
    ELSE IF file[1].type \notin ALLOWED_TYPES THEN 400
    ELSE IF file[1].size > MAX_FILE_SIZE THEN 400
    ELSE 200

\* POST /api/upload: a file that passes the checks is written under a new
\* name; birth is the creation time of the file
Upload(file) ==
    LET status == UploadStatus(file)
        name == IF status = 200
                THEN fileName(nextUpload, fileExtension(file[1].name))
                ELSE ""
    IN  /\ IF status = 200
           THEN /\ nextUpload <= MaxUploads
                /\ uploads' = uploads \cup
                      {[filename |-> name,
                        extension |-> fileExtension(file[1].name),
                        birth |-> nextUpload]}
                /\ nextUpload' = nextUpload + 1
           ELSE UNCHANGED imageVars
        /\ last' = [op |-> "upload", status |-> status, filename |-> name]
        /\ UNCHANGED <<now, rlVars, cache, storeVars, calls, freshSet, used>>

\* imageFiles.sort((a, b) => a.uploadTime.getTime() - b.uploadTime.getTime())
RECURSIVE SortedByUploadTime(_)
SortedByUploadTime(files) ==
    IF files = {} THEN <<>>
    ELSE LET oldest == CHOOSE f \in files : \A g \in files : f.birth <= g.birth
         IN  <<oldest>> \o SortedByUploadTime(files \ {oldest})

\* getUploadedImages: the files named product_... with an image extension,
\* oldest first
getUploadedImages(directory) ==
    SortedByUploadTime({f \in directory : f.extension \in ImageExtensions})

\* the file names of a list of images
Filenames(images) == [i \in 1..Len(images) |-> images[i].filename]

\* the items of a list, as a set
Items(list) == {list[i] : i \in 1..Len(list)}

\* the directory once deleteImage has succeeded for these names
Unlinked(directory, names) == {f \in directory : f.filename \notin names}

imagesToDeleteOneMore(count) ==
    IF count <= MAX_IMAGES THEN 0 ELSE count - MAX_IMAGES + 1

\* how many images cleanupOldImages tries to delete when there are `count`
imagesToDelete(count) ==
    IF count <= MAX_IMAGES THEN 0 ELSE count - MAX_IMAGES

\* the images cleanupOldImages tries to delete: the first ones of the list
OldImages(images) == SubSeq(images, 1, imagesToDelete(Len(images)))

\* cleanupOldImages; deleteImage returns false for the names in `failing`
cleanupOldImages(failing) ==
    LET images == getUploadedImages(uploads)
        attempted == Filenames(OldImages(images))
        deleted == SelectSeq(attempted, LAMBDA name : name \notin failing)
    IN  /\ failing \subseteq Items(attempted)
        /\ uploads' = Unlinked(uploads, Items(deleted))
        /\ last' = [op |-> "cleanupOldImages", pre |-> images,
                    attempted |-> attempted, failing |-> failing,
                    deleted |-> deleted,
                    remaining |-> Len(getUploadedImages(uploads'))]
        /\ UNCHANGED <<now, rlVars, cache, storeVars, nextUpload, calls,
                       freshSet, used>>

\* products.map(p => p.image)
referencedImages(list) == [i \in 1..Len(list) |-> list[i].image]

\* !referencedImages.includes(imagePath)
Unreferenced(referenced, filename) ==
    \A i \in 1..Len(referenced) : referenced[i] # JsString(UrlOf(filename))

\* cleanupUnusedImages(referenced); deleteImage returns false for the names
\* in `failing`
cleanupUnusedImages(referenced, failing) ==
    LET images == getUploadedImages(uploads)
        allImages == Filenames(images)
        attempted == SelectSeq(allImages,
                               LAMBDA name : Unreferenced(referenced, name))
        deleted == SelectSeq(attempted, LAMBDA name : name \notin failing)
        kept == SelectSeq(allImages, LAMBDA name : name \notin Items(deleted))
    IN  /\ failing \subseteq Items(attempted)
        /\ uploads' = Unlinked(uploads, Items(deleted))
        /\ last' = [op |-> "cleanupUnusedImages", pre |-> images,
                    failing |-> failing, deleted |-> deleted, kept |-> kept]
        /\ UNCHANGED <<now, rlVars, cache, storeVars, nextUpload, calls,
                       freshSet, used>>

\* POST /api/images: the action the body names
ImagesPost(action, failing) ==
    IF action = "cleanup" THEN cleanupOldImages(failing)
    ELSE IF action = "cleanup-unused"
    THEN cleanupUnusedImages(referencedImages(products), failing)
    ELSE /\ failing = {}
         /\ last' = [op |-> "imagesPost", status |-> 400]
         /\ UNCHANGED <<now, rlVars, cache, storeVars, imageVars, calls,
                        freshSet, used>>

----------------------------------------------------------------------------
(* withCache *)

\* products.filter(product => product.featured === true)
Featured(list) ==
    SelectSeq(list, LAMBDA product : product.featured = JsBoolean(TRUE))

\* the function a memoized read wraps, by the key its key generator gives
Fn(key, list) == IF key = featuredProducts THEN Featured(list) ELSE list

\* the memoized reads: withCache(fn, keyGenerator, cache), no ttl passed
Wrappers ==
    {[key |-> allProducts, cache |-> "apiCache"],
     [key |-> allProducts, cache |-> "productCache"],
     [key |-> featuredProducts, cache |-> "apiCache"]}

\* findProductById(id) of the database layer: the product, or null
FindProductById(list, id) ==
    IF IndexOf(list, id) = 0 THEN Null ELSE Some(list[IndexOf(list, id)])

\* what the wrapped function resolves to: a list for the list keys, a
\* product or null for the key of a product
FnResult(key, list) ==
    IF \E id \in ProductIds : key = productById(id)
    THEN FindProductById(list, CHOOSE id \in ProductIds : key = productById(id))
    ELSE Some(Fn(key, list))

CallIds == {"c1"}

\* a call slot: where the call stands, what its computation gave, and as
\* history the store contents it may return (ok), the values other calls
\* stored under its key while it was in flight (seen) and the Map of its
\* cache as the call found it (before)
Idle ==
    [pc |-> "idle", key |-> "", cache |-> "none", result |-> Null,
     error |-> "", ok |-> {}, seen |-> {}, before |-> EmptyMap]

\* the wrapper up to its await: cache.get, and on a miss the call of fn
WithCacheCall(c, w) ==
    LET cached == GetResult(cache[w.cache], w.key, now) IN
    /\ calls[c].pc = "idle"
    /\ cache' = [cache EXCEPT ![w.cache] = GetMap(@, w.key, now)]
    /\ IF cached # Null
       THEN /\ last' = [op |-> "withCacheCall", call |-> c, key |-> w.key,
                        cache |-> w.cache, returned |-> TRUE, value |-> cached,
                        ok |-> freshSet]
            /\ UNCHANGED calls
       ELSE /\ last' = [op |-> "withCacheCall", call |-> c, key |-> w.key,
                        cache |-> w.cache, returned |-> FALSE]
            /\ calls' = [calls EXCEPT ![c] =
                           [pc |-> "pending", key |-> w.key, cache |-> w.cache,
                            result |-> Null, error |-> "", ok |-> freshSet,
                            seen |-> {}, before |-> cache[w.cache]]]
    /\ UNCHANGED <<now, imageVars, rlVars, storeVars, freshSet, used>>

\* the persistence call reads the store and its promise resolves
FnResolve(c) ==
    /\ calls[c].pc = "pending"
    /\ calls' = [calls EXCEPT ![c].pc = "resolved",
                              ![c].result = FnResult(calls[c].key, products)]
    /\ last' = [op |-> "fnResolve", call |-> c]
    /\ UNCHANGED <<now, imageVars, rlVars, cache, storeVars, freshSet, used>>

\* the promise of the wrapped function rejects
FnReject(c, error) ==
    /\ calls[c].pc = "pending"
    /\ calls' = [calls EXCEPT ![c].pc = "rejected", ![c].error = error]
    /\ last' = [op |-> "fnReject", call |-> c]
    /\ UNCHANGED <<now, imageVars, rlVars, cache, storeVars, freshSet, used>>

CachesAfterRejectStoring(caches, call) ==
    [caches EXCEPT
       ![call.cache] = SetMap(@, call.key, Some(call.error), NotPassed,
                              defaultTTL(call.cache), now)]

\* the caches after `await fn(...args)` has thrown: cache.set is not reached
CachesAfterReject(caches, call) == caches

\* the wrapper after its await, when fn rejected: the error goes to the
\* caller of the wrapper
WithCacheRethrow(c) ==
    /\ calls[c].pc = "rejected"
    /\ cache' = CachesAfterReject(cache, calls[c])
    /\ last' = [op |-> "withCacheRethrow", call |-> c, key |-> calls[c].key,
                cache |-> calls[c].cache, returned |-> FALSE,
                thrown |-> calls[c].error, seen |-> calls[c].seen,
                before |-> calls[c].before]
    /\ calls' = [calls EXCEPT ![c] = Idle]
    /\ UNCHANGED <<now, imageVars, rlVars, storeVars, freshSet, used>>

\* the wrapper after its await: cache.set(key, result, ttl) and the return
WithCacheResume(c) ==
    /\ calls[c].pc = "resolved"
    /\ cache' = [cache EXCEPT
                   ![calls[c].cache] =
                       SetMap(@, calls[c].key, calls[c].result, NotPassed,
                              defaultTTL(calls[c].cache), now)]
    /\ last' = [op |-> "withCacheResume", call |-> c, key |-> calls[c].key,
                cache |-> calls[c].cache, returned |-> TRUE,
                value |-> calls[c].result, ok |-> calls[c].ok,
                seen |-> calls[c].seen]
    /\ calls' = [d \in DOMAIN calls |->
                    IF d = c THEN Idle
                    ELSE IF /\ calls[d].pc # "idle"
                            /\ calls[d].key = calls[c].key
                            /\ calls[d].cache = calls[c].cache
                         THEN [calls[d] EXCEPT !.seen = @ \cup {calls[c].result}]
                         ELSE calls[d]]
    /\ UNCHANGED <<now, imageVars, rlVars, storeVars, freshSet, used>>

----------------------------------------------------------------------------
(* Error handling *)

\* what a handler can throw: an AppError or one of its subclasses, another
\* Error, or a value that is no Error at all
AppError(name, message, statusCode, code) ==
    [isError |-> TRUE, isAppError |-> TRUE, name |-> name,
     message |-> message, statusCode |-> statusCode, code |-> code]

RateLimitError(message) ==
    AppError("RateLimitError", message, 429, "RATE_LIMIT_EXCEEDED")

NotFoundError == AppError("NotFoundError", "Resource not found", 404, "NOT_FOUND")

PlainError(name, message) ==
    [isError |-> TRUE, isAppError |-> FALSE, name |-> name,
     message |-> message, statusCode |-> 0, code |-> ""]

NotAnError ==
    [isError |-> FALSE, isAppError |-> FALSE, name |-> "",
     message |-> "", statusCode |-> 0, code |-> ""]

\* `Rate limit exceeded. Try again in ${resetTimeSeconds} seconds.`
RateLimitMessage(secs) ==
    "Rate limit exceeded. Try again in " \o ToString(secs) \o " seconds."

\* the body and the status of the response to a failed request
ErrorResponse(status, message, code, stack) ==
    [status |-> status, success |-> FALSE, error |-> message, code |-> code,
     stack |-> stack]

handleApiErrorUnknownOnly(error, isDevelopment) ==
    ErrorResponse(500,
                  IF isDevelopment
                  THEN (IF error.isError THEN error.message ELSE "Unknown error")
                  ELSE "Internal server error",
                  "", isDevelopment /\ error.isError)

\* handleApiError
handleApiError(error, isDevelopment) ==
    IF error.isAppError
    THEN ErrorResponse(error.statusCode, error.message, error.code, FALSE)
    ELSE IF error.isError /\ error.name = "ValidationError"
    THEN ErrorResponse(400, error.message, "VALIDATION_ERROR", FALSE)
    ELSE ErrorResponse(500,
                       IF isDevelopment
                       THEN (IF error.isError THEN error.message
                             ELSE "Unknown error")
                       ELSE "Internal server error",
                       "", isDevelopment /\ error.isError)

\* what the handler itself does once the request is admitted: it answers,
\* or it throws
Completes == [threw |-> FALSE, error |-> NotAnError]
Throws(error) == [threw |-> TRUE, error |-> error]

OkResponse ==
    [status |-> 200, success |-> TRUE, error |-> "", code |-> "", stack |-> FALSE]

\* withErrorHandler(handler), for a handler that begins with
\* rateLimit(request) of limiter l: the response the wrapper returns
WrappedResponse(l, request, rest, isDevelopment) ==
    LET key == keyGenerator(l, request) IN
    IF RateLimitThrows(rateLimitStore, l, key, now)
    THEN handleApiError(
            RateLimitError(RateLimitMessage(
                RateLimitSeconds(rateLimitStore, l, key, now))),
            isDevelopment)
    ELSE IF rest.threw THEN handleApiError(rest.error, isDevelopment)
    ELSE OkResponse

WithErrorHandler(l, request, rest, isDevelopment) ==
    /\ RateLimitEffect(l, request)
    /\ last' = Merge(RateLimitRecord(l, request),
                     [op |-> "withErrorHandler",
                      response |-> WrappedResponse(l, request, rest,
                                                   isDevelopment)])

----------------------------------------------------------------------------
(* The clock *)

\* the instants at which some rate-limit window closes, and the next ms
RateLimitInstants ==
    UNION {{rateLimitStore[k].resetTime, rateLimitStore[k].resetTime + 1} :
           k \in DOMAIN rateLimitStore}

\* the last instants at which some cache entry is fresh, and the next ms
CacheInstants ==
    UNION {UNION {{cache[c][k].timestamp + cache[c][k].ttl,
                   cache[c][k].timestamp + cache[c][k].ttl + 1} :
                  k \in DOMAIN cache[c]} : c \in CacheNames}

ClockFrame ==
    UNCHANGED <<rlVars, cache, storeVars, imageVars, calls, freshSet, used>>

\* the clock moves to the next instant at which something can change
Tick ==
    /\ \E t \in RateLimitInstants \cup CacheInstants :
          /\ t > now
          /\ t <= MaxTime
          /\ now' = t
    /\ last' = [op |-> "tick"]
    /\ ClockFrame

\* the clock moves by a small step, so that the time left in a window is
\* not always a whole number of seconds
SmallStep ==
    /\ now < StepHorizon
    /\ now' = now + StepMs
    /\ last' = [op |-> "tick"]
    /\ ClockFrame

----------------------------------------------------------------------------
(* Specifications *)

\* the process starts with empty tables; the product store is a file and
\* may hold products already
InitWith(callIds) ==
    /\ now = 0
    /\ rateLimitStore = EmptyMap
    /\ rlOwn = [l \in Limiters |-> EmptyMap]
    /\ rlLastOnKey = EmptyMap
    /\ rlWindow = EmptyMap
    /\ cache = [c \in CacheNames |-> EmptyMap]
    /\ \E n \in 0..StoredAtStart :
          /\ products = [i \in 1..n |-> NewProduct(ValidBody, IdOf(i))]
          /\ nextId = n + 1
    /\ uploads = {}
    /\ nextUpload = 1
    /\ calls = [c \in callIds |-> Idle]
    /\ freshSet = {products}
    /\ used = [rateLimit |-> 0, set |-> 0, handler |-> 0, seed |-> 0]
    /\ last = [op |-> "init"]

Init == InitWith(CallIds)

\* the same, with an empty product store
InitEmpty == Init /\ products = <<>>

\* the rate limiter: the three limiters, the sweep and the clock
RLNext ==
    \/ \E l \in Limiters, request \in Requests : RateLimit(l, request)
    \/ RateLimitSweep
    \/ Tick
    \/ SmallStep

SpecRL == InitEmpty /\ [][RLNext]_vars

\* the keys and the values stored through the methods of MemoryCache (null
\* is a value too), and the time-to-live arguments: none, 0, and the two of
\* the scenarios
CacheKeys == {allProducts, featuredProducts, productById(IdOf(1))}
Values == {Some("Widget"), Some("Gadget"), Null}
TTLArgs == {NotPassed, Some(0), Some(10), Some(5000)}
ProductIdArgs == {NotPassed, Some("")} \cup {Some(id) : id \in ProductIds}

\* the caches: the methods of MemoryCache, the sweep, the invalidation and
\* the clock
CacheNext ==
    \/ \E c \in CacheNames, key \in CacheKeys, data \in Values, ttl \in TTLArgs :
          CacheSet(c, key, data, ttl)
    \/ \E c \in CacheNames, key \in CacheKeys : CacheGet(c, key)
    \/ \E c \in CacheNames, key \in CacheKeys : CacheHas(c, key)
    \/ \E c \in CacheNames, key \in CacheKeys : CacheDelete(c, key)
    \/ \E c \in CacheNames : CacheClear(c)
    \/ \E c \in CacheNames : CacheCleanup(c)
    \/ \E productId \in ProductIdArgs : InvalidateProductCaches(productId)
    \/ Tick

SpecCache == InitEmpty /\ [][CacheNext]_vars

\* entries scoped by a category or by a search term, next to a list entry
ScopedKeys == {productsByCategory("tools"), productsBySearch("widget")}

\* the invalidation among entries of every scope
ScopedNext ==
    \/ \E c \in CacheNames, key \in ScopedKeys \cup {allProducts},
          data \in Values, ttl \in TTLArgs : CacheSet(c, key, data, ttl)
    \/ \E c \in CacheNames, key \in ScopedKeys \cup {allProducts} :
          CacheGet(c, key)
    \/ \E c \in CacheNames, key \in ScopedKeys : CacheDelete(c, key)
    \/ \E c \in CacheNames : CacheClear(c)
    \/ \E productId \in ProductIdArgs : InvalidateProductCaches(productId)
    \/ Tick

SpecScoped == InitEmpty /\ [][ScopedNext]_vars

\* sampleProducts: the products the seed inserts
sampleProducts ==
    <<[name |-> JsString("Sample A"), price |-> JsNumber(30),
       category |-> JsString("samples"), image |-> JsString("/a.png")],
      [name |-> JsString("Sample B"), price |-> JsNumber(40),
       category |-> JsString("samples"), image |-> JsString("/b.png"),
       featured |-> JsBoolean(TRUE)]>>

\* dbRowToProduct(productToDbInsert(product)) with the id the table gives
\* the row
SeededProduct(product, id) ==
    [name |-> Field(product, "name"),
     price |-> Field(product, "price"),
     originalPrice |-> OrElse(Field(product, "originalPrice"), JsUndefined),
     category |-> Field(product, "category"),
     image |-> Field(product, "image"),
     images |-> OrElse(Field(product, "images"), JsUndefined),
     featured |-> OrElse(Field(product, "featured"), JsBoolean(FALSE)),
     tags |-> OrElse(Field(product, "tags"), JsUndefined),
     id |-> JsString(id)]

\* bulkInsertProducts: the table after one insert of all the rows
BulkInserted(list, rows, first) ==
    list \o [i \in 1..Len(rows) |-> SeededProduct(rows[i], IdOf(first + i - 1))]

\* the seed requests that may be in flight together
SeedCallIds == {"s1", "s2"}

\* POST /api/products/seed up to the end of its first await: readProducts()
\* gives the rows of the table, or [] when the read fails
SeedRead(c, readFails) ==
    /\ calls[c].pc = "idle"
    /\ used.seed < MaxSeeds
    /\ Use("seed")
    /\ calls' = [calls EXCEPT ![c] =
                   [Idle EXCEPT !.pc = "seedRead",
                                !.result = Some(IF readFails THEN <<>>
                                                ELSE products)]]
    /\ last' = [op |-> "seedRead", call |-> c, failed |-> readFails]
    /\ UNCHANGED <<now, imageVars, rlVars, cache, storeVars, freshSet>>

\* the rest of the seed request: 400 when the read gave products, else the
\* bulk insert and 201
SeedAnswer(c) ==
    /\ calls[c].pc = "seedRead"
    /\ LET existingProducts == calls[c].result[1] IN
       IF Len(existingProducts) > 0
       THEN /\ last' = [op |-> "seed", call |-> c, status |-> 400,
                        pre |-> products]
            /\ UNCHANGED <<storeVars, freshSet>>
       ELSE /\ products' = BulkInserted(products, sampleProducts, nextId)
            /\ nextId' = nextId + Len(sampleProducts)
            /\ freshSet' = freshSet \cup {products'}
            /\ last' = [op |-> "seed", call |-> c, status |-> 201,
                        pre |-> products]
    /\ calls' = [calls EXCEPT ![c] = Idle]
    /\ UNCHANGED <<now, imageVars, rlVars, cache, used>>

\* the bodies and the ids the requests carry
PostBodies ==
    {ValidBody,
     Merge(ValidBody, [featured |-> JsBoolean(TRUE)]),
     [price |-> JsNumber(10), category |-> JsString("tools"),
      image |-> JsString("/widget.png")],
     Merge(ValidBody, [price |-> JsNumber(0)]),
     Merge(ValidBody, [price |-> JsNumber(-5)]),
     Merge(ValidBody, [price |-> JsString("10")])}

PutBodies ==
    {[price |-> JsNumber(20)], [price |-> JsNumber(-1)],
     [featured |-> JsBoolean(TRUE)], [rating |-> JsNumber(7)]}

RequestIds == ProductIds \cup {""}

\* the memoized reads, the product writes, the invalidation, the sweep and
\* the clock
MemoNext ==
    \/ \E c \in CallIds, w \in Wrappers : WithCacheCall(c, w)
    \/ \E c \in CallIds : FnResolve(c)
    \/ \E c \in CallIds : WithCacheResume(c)
    \/ \E body \in PostBodies : POST(body)
    \/ \E id \in RequestIds, body \in PutBodies : PUT(id, body)
    \/ \E id \in RequestIds, body \in PutBodies : PATCH(id, body)
    \/ \E id \in RequestIds : DELETE(id)
    \/ \E productId \in ProductIdArgs : InvalidateProductCaches(productId)
    \/ \E c \in CacheNames : CacheCleanup(c)
    \/ Tick

SpecMemo == Init /\ [][MemoNext]_vars

\* the product store alone: the product writes and the seed requests
StoreNext ==
    \/ \E body \in PostBodies : POST(body)
    \/ \E id \in RequestIds, body \in PutBodies : PUT(id, body)
    \/ \E id \in RequestIds, body \in PutBodies : PATCH(id, body)
    \/ \E id \in RequestIds : DELETE(id)
    \/ \E c \in SeedCallIds, readFails \in BOOLEAN : SeedRead(c, readFails)
    \/ \E c \in SeedCallIds : SeedAnswer(c)

SpecStore == InitWith(SeedCallIds) /\ [][StoreNext]_vars

\* the values of x-forwarded-for, x-real-ip and cf-connecting-ip, as the
\* Headers object gives them (no blank at either end), and the clients
ForwardedValues ==
    {Null, Some(<<>>), Some(<<"1">>), Some(<<"2">>), Some(<<"1", ",", "2">>),
     Some(<<"1", " ", ",", " ", "2">>), Some(<<",", "1">>)}
RealIPValues == {Null, Some(<<>>), Some(<<"3">>)}
CfConnectingIPValues == {Null, Some(<<"4">>)}
Clients == {"A", "B"}
HeaderSets ==
    [forwarded : ForwardedValues, realIP : RealIPValues,
     cfConnectingIP : CfConnectingIPValues]
NoHeaders == [forwarded |-> Null, realIP |-> Null, cfConnectingIP |-> Null]

\* the limiters that use the default key generator, one of them
DefaultKeyLimiters == {"apiRateLimit"}

\* rateLimit(request) for a request of a client with these headers; as
\* history, whether the call before was a call of another client and both
\* carried none of the headers
RateLimitByHeaders(l, client, headers) ==
    LET request == [ip |-> getClientIP(headers), ua |-> "ua1"] IN
    /\ RateLimitEffect(l, request)
    /\ last' = Merge(RateLimitRecord(l, request),
                     [client |-> client, headers |-> headers,
                      shared |-> /\ last.op = "rateLimit"
                                 /\ last.client # client
                                 /\ last.headers = NoHeaders
                                 /\ headers = NoHeaders])

IPNext ==
    \E l \in DefaultKeyLimiters, client \in Clients, headers \in HeaderSets :
        RateLimitByHeaders(l, client, headers)

SpecIP == InitEmpty /\ [][IPNext]_vars

\* the files clients send to POST /api/upload: none, a PNG, a JPEG whose
\* name has no extension, a text file and a JPEG above the size limit
UploadFiles ==
    {Null,
     Some([type |-> "image/png", name |-> <<"photo", "PNG">>, size |-> 1000]),
     Some([type |-> "image/jpeg", name |-> <<"photo">>, size |-> 1000]),
     Some([type |-> "text/plain", name |-> <<"notes", "txt">>, size |-> 1000]),
     Some([type |-> "image/jpeg", name |-> <<"big", "jpg">>,
           size |-> 2000000])}

\* the names of the files in the directory: those whose deletion may fail
StoredNames == {f.filename : f \in uploads}

\* product bodies that refer to uploaded images, through the main image
\* field or through the image list
ImageBodies ==
    {Merge(ValidBody, [image |-> JsString(UrlOf(fileName(1, "png")))]),
     Merge(ValidBody,
           [images |-> JsArray(<<JsString(UrlOf(fileName(1, "png"))),
                                  JsString(UrlOf(fileName(2, "png")))>>)])}

ImageActions == {"cleanup", "cleanup-unused", "optimize"}

\* the uploads directory: uploads, the image management actions and the
\* products that refer to images
ImageNext ==
    \/ \E file \in UploadFiles : Upload(file)
    \/ \E action \in ImageActions, failing \in SUBSET StoredNames :
          ImagesPost(action, failing)
    \/ \E body \in ImageBodies : POST(body)

SpecImages == InitEmpty /\ [][ImageNext]_vars

\* what the wrapped handlers do after admission, and the requests they get
HandlerRuns ==
    {Completes, Throws(NotFoundError),
     Throws(PlainError("ValidationError", "price must be positive")),
     Throws(PlainError("Error", "disk full")), Throws(NotAnError)}
HandlerRequests == {request \in Requests : request.ip = "ip1"}

\* route handlers behind withErrorHandler that begin with a rate limit check
HandlerNext ==
    \/ \E l \in Limiters, request \in HandlerRequests, rest \in HandlerRuns,
          isDevelopment \in BOOLEAN :
            WithErrorHandler(l, request, rest, isDevelopment)
    \/ RateLimitSweep
    \/ Tick
    \/ SmallStep

SpecHandler == InitEmpty /\ [][HandlerNext]_vars

\* both tables with their sweeps: the calls of one client on the strict
\* limiter and one key of apiCache
SweepKeys == {allProducts}
SweepLimiters == {"strictApiRateLimit"}
SweepCaches == {"apiCache"}

SweepNext ==
    \/ \E l \in SweepLimiters, request \in HandlerRequests :
          RateLimit(l, request)
    \/ RateLimitSweep
    \/ \E c \in SweepCaches, key \in SweepKeys, data \in Values, ttl \in TTLArgs :
          CacheSet(c, key, data, ttl)
    \/ \E c \in SweepCaches, key \in SweepKeys : CacheGet(c, key)
    \/ \E c \in SweepCaches, key \in SweepKeys : CacheHas(c, key)
    \/ \E c \in SweepCaches, key \in SweepKeys : CacheDelete(c, key)
    \/ \E c \in SweepCaches : CacheCleanup(c)
    \/ Tick

SpecSweep == InitEmpty /\ [][SweepNext]_vars

\* the memoized functions of the wrapper's own contract: a list read and a
\* read of one product, which resolves to null when there is none; two
\* calls may be in flight together
WrapCallIds == {"c1", "c2"}
WrapWrappers ==
    {[key |-> allProducts, cache |-> "apiCache"],
     [key |-> productById(IdOf(1)), cache |-> "productCache"]}
Errors == {"Error: connection lost"}

InitWrap == InitWith(WrapCallIds)

\* the memoized calls, resolving or rejecting, the product writes that
\* change what the wrapped functions give, and the clock
WrapNext ==
    \/ \E c \in WrapCallIds, w \in WrapWrappers : WithCacheCall(c, w)
    \/ \E c \in WrapCallIds : FnResolve(c)
    \/ \E c \in WrapCallIds, error \in Errors : FnReject(c, error)
    \/ \E c \in WrapCallIds : WithCacheResume(c)
    \/ \E c \in WrapCallIds : WithCacheRethrow(c)
    \/ POST(ValidBody)
    \/ \E id \in ProductIds : DELETE(id)
    \/ Tick

SpecWrap == InitWrap /\ [][WrapNext]_vars

----------------------------------------------------------------------------
(* Claims about the rate limiter, checked under SpecRL *)

IsRateLimit == last.op = "rateLimit"

\* the configuration of the limiter called last and the calls made for its
\* key since the entry of the key was created
LastConfig == Config(last.limiter)
LastWindow == rlWindow[last.key]

\* C1: when only one limiter has touched a key since its entry was created,
\* the call number N of the window is admitted when N <= maxRequests and
\* fails with RateLimited when N > maxRequests.
C1_QuotaWithinWindow ==
    (IsRateLimit /\ LastWindow.by = {last.limiter}) =>
        /\ LastWindow.calls <= LastConfig.maxRequests
              => last.outcome = "admitted"
        /\ LastWindow.calls > LastConfig.maxRequests
              => last.outcome = "RateLimited"

C1_Witness ==
    /\ IsRateLimit
    /\ LastWindow.by = {last.limiter}
    /\ LastWindow.calls = LastConfig.maxRequests + 1
    /\ last.outcome = "RateLimited"

\* C2: a call made at or past the reset timestamp of the key's entry
\* (now >= resetTime) is admitted and leaves a fresh entry with count = 1 and
\* reset timestamp = now + windowMs.
C2_ResetAtOrPastResetTime ==
    (IsRateLimit /\ last.pre.present /\ last.time >= last.pre.resetTime) =>
        /\ last.outcome = "admitted"
        /\ last.post = [present |-> TRUE, count |-> 1,
                        resetTime |-> last.time + LastConfig.windowMs]

\* C3: when the latest call for a key failed with RateLimited carrying s
\* seconds at time t, the next call for that key on the same limiter, made at
\* a time >= t + s * 1000, is admitted.
C3_RetryAfterDelaySucceeds ==
    (/\ IsRateLimit
     /\ last.prev.outcome = "RateLimited"
     /\ last.prev.limiter = last.limiter
     /\ last.time >= last.prev.time + last.prev.secs * MsPerSecond)
        => last.outcome = "admitted"

\* C4: a rateLimit call for one key leaves the entry of every other key as
\* it was: its presence, its count and its reset timestamp.
C4_KeyIsolation ==
    [][last'.op = "rateLimit" =>
          \A k \in ((DOMAIN rateLimitStore) \cup (DOMAIN rateLimitStore'))
                      \ {last'.key} :
              EntryOf(rateLimitStore', k) = EntryOf(rateLimitStore, k)]_vars

C4_Witness ==
    /\ IsRateLimit
    /\ last.outcome = "RateLimited"
    /\ \E k \in (DOMAIN rateLimitStore) \ {last.key} :
          rateLimitStore[k].count >= 1

\* C5: the outcome of a call on a limiter is the outcome the limiter would
\* give had it a table of its own, fed by its own earlier calls only.
C5_LimitersIndependent ==
    IsRateLimit => last.outcome = last.alone

----------------------------------------------------------------------------
(* Claims about the memoized reads and the handlers, checked under SpecMemo *)

\* a memoized read has just returned a value
HasReturned == last.op \in {"withCacheCall", "withCacheResume"} /\ last.returned

\* a handler has just completed a create, an update or a delete
HasWritten ==
    last.op \in {"POST", "PUT", "PATCH", "DELETE"} /\ last.status \in {200, 201}

\* C6: the value a memoized read returns was computed from the product store
\* as it was at the latest completed invalidation before the read began, or
\* as it has been since.
C6_NoStaleReadAfterWrite ==
    HasReturned => \E list \in last.ok : last.value = Some(Fn(last.key, list))

\* C7: right after a handler has created, updated or deleted a product,
\* get('products:all') and get('products:featured') return null on both
\* caches.
C7_HandlersInvalidate ==
    HasWritten =>
        \A c \in CacheNames :
            /\ GetResult(cache[c], allProducts, now) = Null
            /\ GetResult(cache[c], featuredProducts, now) = Null

----------------------------------------------------------------------------
(* Claims about the caches, checked under SpecCache *)

\* C8: right after invalidateProductCaches(productId), get('products:all'),
\* get('products:featured') and, when an id was passed (the empty string
\* names no product and counts as no id), get('product:<id>') return null on
\* both caches.
C8_InvalidatePostcondition ==
    last.op = "invalidateProductCaches" =>
        \A c \in CacheNames :
            /\ GetResult(cache[c], allProducts, now) = Null
            /\ GetResult(cache[c], featuredProducts, now) = Null
            /\ last.productId \notin {NotPassed, Some("")} =>
                  GetResult(cache[c], productById(last.productId[1]), now) = Null

C8_Witness ==
    /\ last.op = "invalidateProductCaches"
    /\ last.productId # NotPassed
    /\ productById(last.productId[1]) \in last.removed["apiCache"]

\* C9: get(k) made right after set(k, v, ttl) on the same cache, with no
\* time elapsed, returns v.
C9_SetThenGet ==
    [][(/\ last.op = "set"
        /\ last'.op = "get"
        /\ last'.cache = last.cache
        /\ last'.key = last.key
        /\ now' = now)
          => last'.result = last.data]_vars

C9_Witness ==
    /\ last.op = "get"
    /\ last.pre # Null
    /\ last.pre[1].timestamp = now
    /\ last.result = last.pre[1].data

\* C10: get(key) on an entry stored at storedAt with time-to-live ttl returns
\* the stored value and keeps the entry when now - storedAt <= ttl, and
\* returns null and removes the entry when now - storedAt > ttl.
C10_GetFreshness ==
    (last.op = "get" /\ last.pre # Null) =>
        LET entry == last.pre[1] IN
        /\ now - entry.timestamp <= entry.ttl =>
              /\ last.result = entry.data
              /\ last.key \in DOMAIN cache[last.cache]
              /\ cache[last.cache][last.key] = entry
        /\ now - entry.timestamp > entry.ttl =>
              /\ last.result = Null
              /\ last.key \notin DOMAIN cache[last.cache]

C10_WitnessAtTtl ==
    /\ last.op = "get"
    /\ last.pre # Null
    /\ now - last.pre[1].timestamp = last.pre[1].ttl
    /\ last.result = last.pre[1].data

----------------------------------------------------------------------------
(* Claims about the memoizing wrapper, checked under SpecWrap *)

\* a memoized call has just looked its key up and missed
HasMissed == last.op = "withCacheCall" /\ ~last.returned

\* C11: a call of a wrapped function made right after a call with the same
\* arguments has completed, inside the time-to-live, does not invoke the
\* underlying function and returns the value the first call returned,
\* whatever that value is.
C11_SecondCallFromCache ==
    [][(/\ \/ last.op = "withCacheResume"
           \/ last.op = "withCacheCall" /\ last.returned
        /\ last'.op = "withCacheCall"
        /\ last'.key = last.key
        /\ last'.cache = last.cache
        /\ now' = now)
          => (last'.returned /\ last'.value = last.value)]_vars

\* C12: when the function of a memoized call has rejected and the error has
\* reached the caller, the Map of the cache is exactly as the call found it
\* (no other call having stored a value under the key meanwhile).
C12_FailedCallLeavesTable ==
    (last.op = "withCacheRethrow" /\ last.seen = {}) =>
        /\ last.thrown \in Errors
        /\ cache[last.cache] = last.before

\* C12 as amended: those steps create and overwrite no entry; the one change
\* they can make is that the lookup evicts the expired entry of its own key.
\* The error thrown is the error the function rejected with, and unless
\* another call stored a value meanwhile a lookup of the key still misses.
C12_FailedCallStoresNothing ==
    [][/\ (\/ last'.op = "withCacheCall" /\ ~last'.returned
           \/ last'.op = "withCacheRethrow") =>
             \A c \in CacheNames :
                /\ \A k \in DOMAIN cache'[c] :
                      k \in DOMAIN cache[c] /\ cache'[c][k] = cache[c][k]
                /\ \A k \in (DOMAIN cache[c]) \ (DOMAIN cache'[c]) :
                      /\ last'.op = "withCacheCall"
                      /\ c = last'.cache
                      /\ k = last'.key
                      /\ now - cache[c][k].timestamp > cache[c][k].ttl
       /\ last'.op = "withCacheRethrow" =>
             /\ last'.thrown = calls[last'.call].error
             /\ calls[last'.call].seen = {} =>
                   GetResult(cache'[last'.cache], last'.key, now') = Null]_vars

C12_Witness ==
    /\ last.op = "withCacheRethrow"
    /\ last.thrown \in Errors
    /\ last.key \notin DOMAIN cache[last.cache]

\* C13: a call whose lookup misses invokes the underlying function for
\* itself, also when another call for the same key is in flight; when a call
\* resumes, it returns the result of its own computation and the cache
\* holds that result, stored at that instant, whatever an overlapping call
\* stored before.
C13_NotDeduplicated ==
    /\ HasMissed => calls[last.call].pc = "pending"
    /\ last.op = "withCacheResume" =>
          /\ last.key \in DOMAIN cache[last.cache]
          /\ cache[last.cache][last.key].data = last.value
          /\ cache[last.cache][last.key].timestamp = now

C13_Witness ==
    /\ last.op = "withCacheResume"
    /\ \E v \in last.seen : v # last.value
    /\ cache[last.cache][last.key].data = last.value

----------------------------------------------------------------------------
(* Claims about the wrapped route handlers, checked under SpecHandler *)

\* C14: when rateLimit throws inside a handler wrapped by withErrorHandler,
\* the wrapper returns a response with status 429 and success = false whose
\* error text carries the seconds left until the reset of the entry, and
\* rateLimit has run once for the request.
C14_RateLimitedBecomes429 ==
    (last.op = "withErrorHandler" /\ last.outcome = "RateLimited") =>
        /\ last.response.status = 429
        /\ last.response.success = FALSE
        /\ last.response.error =
              RateLimitMessage(Ceil(last.pre.resetTime - last.time, MsPerSecond))
        /\ last.post.count = last.pre.count + 1

C14_Witness ==
    /\ last.op = "withErrorHandler"
    /\ last.outcome = "RateLimited"
    /\ last.response.status = 429
    /\ last.secs > 0
    /\ last.secs * MsPerSecond > last.pre.resetTime - last.time

----------------------------------------------------------------------------
(* Further claims about the caches, checked under SpecCache and SpecScoped *)

\* C15: at every instant and for every key, has(key) returns true exactly
\* when get(key) would be served from a stored entry, and has leaves the
\* Map as get would leave it; a has step answers by the age of the entry it
\* found and keeps the entry exactly when it answers true.
C15_HasAgreesWithGet ==
    /\ \A c \in CacheNames, key \in CacheKeys :
          /\ HasResult(cache[c], key, now) =
                (key \in DOMAIN GetMap(cache[c], key, now))
          /\ HasResult(cache[c], key, now) =>
                GetResult(cache[c], key, now) = cache[c][key].data
          /\ ~HasResult(cache[c], key, now) =>
                GetResult(cache[c], key, now) = Null
          /\ HasMap(cache[c], key, now) = GetMap(cache[c], key, now)
    /\ (last.op = "has" /\ last.pre # Null) =>
          /\ last.result = (now - last.pre[1].timestamp <= last.pre[1].ttl)
          /\ last.result = (last.key \in DOMAIN cache[last.cache])

C15_Witness ==
    /\ last.op = "has"
    /\ last.pre # Null
    /\ last.result = FALSE
    /\ last.key \notin DOMAIN cache[last.cache]

\* C16: right after set(key, value, ttl) the entry of the key holds the
\* value, storedAt = now, and the ttl passed when one was passed, the
\* default ttl of the cache when none was.
C16_SetStoresGivenTtl ==
    last.op = "set" =>
        /\ last.key \in DOMAIN cache[last.cache]
        /\ cache[last.cache][last.key] =
              [data |-> last.data, timestamp |-> now,
               ttl |-> IF last.ttl # NotPassed THEN last.ttl[1]
                       ELSE defaultTTL(last.cache)]

\* C17: invalidateProductCaches removes no category-scoped and no
\* search-scoped entry from either cache.
C17_InvalidationKeepsScoped ==
    last.op = "invalidateProductCaches" =>
        \A c \in CacheNames : last.removed[c] \cap ScopedKeys = {}

----------------------------------------------------------------------------
(* Claims about the sweeps, checked under SpecRL and SpecSweep *)

\* C18: the sweep of the rate-limit table at time now leaves no entry whose
\* reset timestamp is earlier than now, and leaves every entry with
\* now <= resetTime as it was.
C18_RateLimitSweep ==
    [][last'.op = "rateLimitSweep" =>
          /\ \A k \in DOMAIN rateLimitStore' :
                ~(rateLimitStore'[k].resetTime < now)
          /\ \A k \in DOMAIN rateLimitStore :
                now <= rateLimitStore[k].resetTime =>
                    /\ k \in DOMAIN rateLimitStore'
                    /\ rateLimitStore'[k] = rateLimitStore[k]]_vars

C18_Witness ==
    /\ last.op = "rateLimitSweep"
    /\ last.removed # {}
    /\ \E k \in DOMAIN rateLimitStore : rateLimitStore[k].resetTime = now

\* the entries of a table that are live at this instant
LiveLimits(store) ==
    [k \in {x \in DOMAIN store : now <= store[x].resetTime} |-> store[k]]

LiveEntries(m) ==
    [k \in {x \in DOMAIN m : now - m[x].timestamp <= m[x].ttl} |-> m[k]]

\* C20: in every state the tables can be in, with sweeps taken at any
\* points before, a sweep taken now changes neither the outcome of the call
\* made next (rateLimit, get, has) nor the live entries that call, or a set
\* or a delete, leaves; so runs that differ only by sweeps give the same
\* outcomes and keep the same live entries.
C20_SweepsUnobservable ==
    /\ \A l \in Limiters, request \in Requests :
          LET key == keyGenerator(l, request)
              swept == SweptStore(rateLimitStore, now)
          IN  /\ Outcome(swept, l, key, now) = Outcome(rateLimitStore, l, key, now)
              /\ RateLimitSeconds(swept, l, key, now) =
                    RateLimitSeconds(rateLimitStore, l, key, now)
              /\ LiveLimits(RateLimitStore(swept, l, key, now)) =
                    LiveLimits(RateLimitStore(rateLimitStore, l, key, now))
    /\ \A c \in CacheNames, key \in SweepKeys :
          LET m == cache[c]
              swept == CleanupMap(m, now)
          IN  /\ GetResult(swept, key, now) = GetResult(m, key, now)
              /\ HasResult(swept, key, now) = HasResult(m, key, now)
              /\ LiveEntries(GetMap(swept, key, now)) =
                    LiveEntries(GetMap(m, key, now))
              /\ LiveEntries(HasMap(swept, key, now)) =
                    LiveEntries(HasMap(m, key, now))
              /\ LiveEntries(MapDelete(swept, key)) =
                    LiveEntries(MapDelete(m, key))
              /\ \A data \in Values, ttl \in TTLArgs :
                    LiveEntries(SetMap(swept, key, data, ttl, defaultTTL(c), now)) =
                    LiveEntries(SetMap(m, key, data, ttl, defaultTTL(c), now))

\* a call admitted on a key whose entry a sweep had removed, while the cache
\* holds an entry that its sweep would remove
C20_Witness ==
    /\ last.op = "rateLimit"
    /\ ~last.pre.present
    /\ last.prev.limiter # "none"
    /\ \E c \in CacheNames :
          CleanupMap(cache[c], now) # cache[c]

----------------------------------------------------------------------------
(* Claims about the product routes *)

\* the body lacks one of name, price, category, image, or its price is not
\* a number above 0
C21_Rejected(body) ==
    \/ \E f \in {"name", "price", "category", "image"} : f \notin DOMAIN body
    \/ body.price.type # "number"
    \/ body.price.num <= 0

C22_Stored(id) == \E i \in 1..Len(products) : products[i].id = JsString(id)

C23_SeededAtMostOnce ==
    \A i \in 1..Len(sampleProducts) :
        Cardinality({j \in 1..Len(products) :
                        products[j].name = sampleProducts[i].name}) <= 1

----------------------------------------------------------------------------
(* Claims about the entries of the rate limiter *)

\* C24: the window is fixed: no step taken while the window of an entry is
\* open (now at or before its resetTime), an admitted or a rejected call for
\* its key included, removes the entry or changes its resetTime, and the
\* resetTime of every entry is the time of the call that created it plus the
\* windowMs of the limiter that made that call.
C24_FixedWindow ==
    [][/\ \A key \in DOMAIN rateLimitStore :
            now <= rateLimitStore[key].resetTime =>
               /\ key \in DOMAIN rateLimitStore'
               /\ rateLimitStore'[key].resetTime =
                    rateLimitStore[key].resetTime
       /\ \A key \in DOMAIN rateLimitStore' :
            rateLimitStore'[key].resetTime =
               rlWindow'[key].start + Config(rlWindow'[key].first).windowMs]_vars

C24_Witness ==
    /\ last.op = "rateLimit"
    /\ last.outcome = "RateLimited"
    /\ last.time > rlWindow[last.key].start
    /\ last.post.resetTime = rlWindow[last.key].start + LastConfig.windowMs

\* C25: the table holds at most one entry for a key (it is a Map, here a
\* function of the key), the count of every entry is at least 1, and it is
\* the number of rateLimit calls made for the key since the entry was
\* created, the rejected calls included.
C25_CountIsCallsSinceCreation ==
    \A key \in DOMAIN rateLimitStore :
        /\ rateLimitStore[key].count >= 1
        /\ rateLimitStore[key].count = rlWindow[key].calls

C25_Witness ==
    /\ last.op = "rateLimit"
    /\ last.outcome = "RateLimited"
    /\ last.prev.outcome = "RateLimited"
    /\ rateLimitStore[last.key].count = rlWindow[last.key].calls
    /\ rateLimitStore[last.key].count > LastConfig.maxRequests + 1

\* C26: the seconds a RateLimited failure reports are
\* ceil((resetTime - now) / 1000) of the entry, are never negative and never
\* exceed ceil(windowMs / 1000) of the limiter that rejected the call.
C26_RemainingSecondsBounded ==
    (last.op = "rateLimit" /\ last.outcome = "RateLimited") =>
        /\ last.secs = Ceil(last.pre.resetTime - last.time, MsPerSecond)
        /\ last.secs >= 0
        /\ last.secs <= Ceil(Config(last.limiter).windowMs, MsPerSecond)

----------------------------------------------------------------------------
(* Claims about the default key, checked under SpecIP *)

\* `key` is the first comma-separated item of `text` without the blanks at
\* its ends
C27_IsTrimmedFirstItem(key, text) ==
    \E n \in 0..Len(text), a \in 0..Len(text), b \in 0..Len(text) :
        /\ a + b <= n
        /\ \A i \in 1..n : text[i] # ","
        /\ n = Len(text) \/ text[n + 1] = ","
        /\ \A i \in 1..a : text[i] = " "
        /\ \A i \in (n - b + 1)..n : text[i] = " "
        /\ a + b < n => text[a + 1] # " " /\ text[n - b] # " "
        /\ key = Str(SubSeq(text, a + 1, n - b))

\* the key the claim gives a request, a header being "there" when There
\* says so
C27_KeyAsClaimed(key, headers, There(_)) ==
    IF There(headers.forwarded)
    THEN C27_IsTrimmedFirstItem(key, headers.forwarded[1])
    ELSE IF There(headers.realIP) THEN key = Str(headers.realIP[1])
    ELSE IF There(headers.cfConnectingIP)
    THEN key = Str(headers.cfConnectingIP[1])
    ELSE key = "unknown"

C27_Present(header) == header # Null

C27_NonEmpty(header) == header # Null /\ header[1] # <<>>

\* two clients without the headers land on one entry
C27_SharedEntry ==
    last.shared =>
        /\ last.key = "unknown"
        /\ last.pre.present
        /\ last.post.count = last.pre.count + 1

\* C27 as stated: the default key is the trimmed first item of
\* x-forwarded-for when that header is present, else x-real-ip when present,
\* else cf-connecting-ip when present, else "unknown".
C27_KeyWhenPresent ==
    last.op = "rateLimit" =>
        C27_KeyAsClaimed(last.key, last.headers, C27_Present)

\* C27, amended: the default key is the trimmed first item of
\* x-forwarded-for when that header is present with a non-empty value, else
\* x-real-ip when present and non-empty, else cf-connecting-ip when present
\* and non-empty, else "unknown"; so the requests of all clients that carry
\* none of these headers count on one entry.
C27_KeyWhenNonEmpty ==
    last.op = "rateLimit" =>
        /\ C27_KeyAsClaimed(last.key, last.headers, C27_NonEmpty)
        /\ C27_SharedEntry

C27_Witness ==
    /\ last.op = "rateLimit"
    /\ last.shared
    /\ last.client = "B"
    /\ last.key = "unknown"
    /\ last.post.count = 2

----------------------------------------------------------------------------
(* Claims about the uploaded images, checked under SpecImages *)

\* the names of the images in the directory now
C28_StoredNames == Items(Filenames(getUploadedImages(uploads)))

C29_ImageList(product) ==
    IF "items" \in DOMAIN product.images THEN product.images.items ELSE <<>>

\* some product refers to the file, by its main image or in its image list
C29_Referenced(filename) ==
    \E i \in 1..Len(products) :
        \/ products[i].image = JsString(UrlOf(filename))
        \/ JsString(UrlOf(filename)) \in Items(C29_ImageList(products[i]))

\* C29: the 'cleanup-unused' action deletes no uploaded image that a product
\* still refers to through its main image field or its image list, and
\* every uploaded image ends in exactly one of `deleted` and `kept`.
C29_UnusedCleanupKeepsReferenced ==
    last.op = "cleanupUnusedImages" =>
        /\ \A name \in Items(last.deleted) : ~C29_Referenced(name)
        /\ Items(last.deleted) \cap Items(last.kept) = {}
        /\ Items(last.deleted) \cup Items(last.kept) =
              Items(Filenames(last.pre))
        /\ Len(last.deleted) + Len(last.kept) = Len(last.pre)

\* C30: after any sequence of uploads and cleanup actions the number of
\* stored images never exceeds MAX_IMAGES.
C30_ImageCap == Len(getUploadedImages(uploads)) <= MAX_IMAGES

====
